---- MODULE Spec2Model ----
(***************************************************************************)
(* MoLAttentionLayer (nntrainer/layers/mol_attention_layer.cpp).           *)
(*                                                                         *)
(* The layer is modelled as a state machine over its own fields            *)
(* (helper_exec, wt_idx, mol_props), the storage registered with the layer *)
(* context (weights, scratch tensors, output dimension) and the tensors    *)
(* the run context hands out.  Tensor shapes and the element addresses of  *)
(* the strided views are modelled exactly.  Floating-point contents are    *)
(* modelled by provenance: every element carries a tag [kind, gen] saying  *)
(* which quantity of which forward step it holds; an operation yields the  *)
(* tag of its result when every operand it reads holds the quantity the    *)
(* formula needs, and "corrupt" otherwise.                                 *)
(***************************************************************************)
EXTENDS Integers, Sequences, FiniteSets, TLC

\* ---------------------------------------------------------------- bounds
MaxBatch == 2
MaxK == 2
MaxUnit == 2
MaxSteps == 2
MaxCalls == 2
QueryWidth == 2
ValueHeight == 2
ValueWidth == 1

\* ------------------------------------------------- enum AttentionParams
query == 0
value == 1
state == 2
fc_w == 3
fc_bias == 4
fc_proj_w == 5
fc_out == 6
fc_tanh == 7
fc_proj_out == 8
scores == 9
prob == 10
prob_left == 11
prob_right == 12
u_neg_div == 13
u_pos_div == 14

Slots == 0..14

SINGLE_INOUT_IDX == 0

\* --------------------------------------------------------- tensor basics
\* TensorDim (batch, channel, height, width)
Dim(b, c, h, w) == [batch |-> b, channel |-> c, height |-> h, width |-> w]

DataLen(d) == d.batch * d.channel * d.height * d.width

SetWidth(d, w) == [d EXCEPT !.width = w]

Tag(k, g) == [kind |-> k, gen |-> g]

Uninit == Tag("uninit", 0)

\* a tensor whose every element holds the same quantity
Fill(d, t) == [i \in 1..DataLen(d) |-> t]

\* result tag of an operation: the quantity kind of step g when all the
\* operands read hold what the formula expects
Derive(k, g, ok) == IF ok THEN Tag(k, g) ELSE Tag("corrupt", g)

VARIABLES
  num_inputs,   \* context.getNumInputs()
  in_batch,     \* batch of the input dimensions given to finalize
  mol_props,    \* [unit, mol_k], 0 = property empty
  phase,        \* "created", "failed" (finalize threw), "ready"
  err,          \* exception finalize threw ("none" if it returned)
  wt_idx,       \* std::array<unsigned int, 15>
  wt_set,       \* the slots of wt_idx some statement has assigned
  weights,      \* storage requested with requestWeight, in request order
  tensors,      \* storage requested with requestTensor, in request order
  output_dim,   \* <<>> until setOutputDimensions
  helper_exec,
  batch,        \* current batch of inputs and scratch tensors
  output, dquery, dvalue, dstate,   \* output and outgoing derivatives
  dfc_w, dfc_bias, dfc_proj_w,      \* weight gradients
  step,         \* number of forwarding calls so far
  pattern,      \* entry points called since the last forwarding
  helper_runs,  \* executions of calcDerivativeHelper since the last forwarding
  helper_saw,   \* what the last helper execution read from the packed buffer
  resized,      \* a setBatch changed the scratch tensors since the last forwarding
  last_op

vars == <<num_inputs, in_batch, mol_props, phase, err, wt_idx, wt_set, weights,
          tensors, output_dim, helper_exec, batch, output, dquery, dvalue,
          dstate, dfc_w, dfc_bias, dfc_proj_w, step, pattern, helper_runs,
          helper_saw, resized, last_op>>

cfgVars == <<num_inputs, in_batch, mol_props, phase, err, wt_idx, wt_set,
             weights, output_dim>>

gradVars == <<output, dquery, dvalue, dstate, dfc_w, dfc_bias, dfc_proj_w>>

\* ------------------------------------------------------------ constructor
\* MoLAttentionLayer() : helper_exec(false), wt_idx({0})
Init ==
  /\ num_inputs \in 2..4
  /\ in_batch \in 1..MaxBatch
  /\ mol_props = [unit |-> 0, mol_k |-> 0]
  /\ phase = "created"
  /\ err = "none"
  /\ wt_idx = [s \in Slots |-> 0]
  /\ wt_set = {}
  /\ weights = <<>>
  /\ tensors = <<>>
  /\ output_dim = <<>>
  /\ helper_exec = FALSE
  /\ batch = in_batch
  /\ output = Uninit /\ dquery = Uninit /\ dvalue = Uninit /\ dstate = Uninit
  /\ dfc_w = Uninit /\ dfc_bias = Uninit /\ dfc_proj_w = Uninit
  /\ step = 0
  /\ pattern = <<>>
  /\ helper_runs = 0
  /\ helper_saw = Uninit
  /\ resized = FALSE
  /\ last_op = "construct"

\* ------------------------------------------------------------ setProperty
\* loadProperties(values, mol_props): u, k = 0 stand for a property that
\* values does not name
SetProperty ==
  /\ phase = "created"
  /\ \E u \in 0..MaxUnit, k \in 0..MaxK :
       /\ u + k > 0
       /\ mol_props' = [unit  |-> IF u > 0 THEN u ELSE mol_props.unit,
                        mol_k |-> IF k > 0 THEN k ELSE mol_props.mol_k]
  /\ last_op' = "setProperty"
  /\ UNCHANGED <<num_inputs, in_batch, phase, err, wt_idx, wt_set, weights,
                 tensors, output_dim, helper_exec, batch, gradVars, step,
                 pattern, helper_runs, helper_saw, resized>>

\* ---------------------------------------------------------------- finalize
\* InitLayerContext::requestWeight / requestTensor: append the request and
\* return its position in the list
Request(list, item) == [list |-> Append(list, item), idx |-> Len(list)]

WeightSpec(n, d) == [name |-> n, dim |-> d]

TensorSpec(n, d) == [name |-> n, dim |-> d, data |-> Fill(d, Uninit)]

\* what finalize leaves behind when it throws e after assigning wt_idx wi
Thrown(e, wi, ws) ==
  [err |-> e, wt_idx |-> wi, wt_set |-> ws, weights |-> <<>>,
   tensors |-> <<>>, output_dim |-> <<>>]

\* the part of finalize after both property checks (lines 81-131)
FinalizeRequests(props, b, wi0, ws0) ==
  LET query_dim == Dim(b, 1, 1, QueryWidth)
      value_dim == Dim(b, 1, ValueHeight, ValueWidth)
      unit == props.unit
      mol_k == props.mol_k
      fc_w_dim == Dim(1, 1, query_dim.width, unit)
      r1 == Request(<<>>, WeightSpec("fc_w", fc_w_dim))
      fc_bias_dim == Dim(1, 1, 1, unit)
      r2 == Request(r1.list, WeightSpec("fc_bias", fc_bias_dim))
      fc_proj_w_dim == Dim(1, 1, unit, 3 * mol_k)
      r3 == Request(r2.list, WeightSpec("fc_proj_w", fc_proj_w_dim))
      fc_out_dim == SetWidth(query_dim, fc_w_dim.width)
      t1 == Request(<<>>, TensorSpec("fc_out", fc_out_dim))
      \* TensorDim fc_proj_out_dim = fc_out_dim;
      \* fc_out_dim.width(fc_proj_w_dim.width());   (fc_out_dim, not the copy)
      fc_proj_out_dim == fc_out_dim
      fc_out_dim2 == SetWidth(fc_out_dim, fc_proj_w_dim.width)
      t2 == Request(t1.list, TensorSpec("fc_proj_out", fc_proj_out_dim))
      scores_dim == Dim(value_dim.batch, 1, 1, value_dim.height)
      t3 == Request(t2.list, TensorSpec("scores", scores_dim))
      prob_dim == SetWidth(value_dim, mol_k)
      t4 == Request(t3.list, TensorSpec("prob", prob_dim))
      t5 == Request(t4.list, TensorSpec("prob_left", prob_dim))
      t6 == Request(t5.list, TensorSpec("prob_right", prob_dim))
      t7 == Request(t6.list, TensorSpec("u_neg_div", prob_dim))
      t8 == Request(t7.list, TensorSpec("u_pos_div", prob_dim))
  IN [err |-> "none",
      wt_idx |-> [wi0 EXCEPT ![fc_w] = r1.idx, ![fc_bias] = r2.idx,
                             ![fc_proj_w] = r3.idx, ![fc_out] = t1.idx,
                             ![fc_proj_out] = t2.idx, ![scores] = t3.idx,
                             ![prob] = t4.idx, ![prob_left] = t5.idx,
                             ![prob_right] = t6.idx, ![u_neg_div] = t7.idx,
                             ![u_pos_div] = t8.idx],
      wt_set |-> ws0 \cup {fc_w, fc_bias, fc_proj_w, fc_out, fc_proj_out,
                           scores, prob, prob_left, prob_right, u_neg_div,
                           u_pos_div},
      weights |-> r3.list,
      tensors |-> t8.list,
      output_dim |-> <<query_dim>>]

\* finalize with the MoL_K check moved behind the first weight request
FinalizeResult_LateKCheck(n, props, b, wi) ==
  LET wi1 == [wi EXCEPT ![query] = query, ![value] = value, ![state] = state]
      ws1 == {query, value, state}
  IN IF n # 3 THEN Thrown("runtime_error", wi, {})
     ELSE IF props.unit = 0 THEN Thrown("invalid_argument", wi1, ws1)
     ELSE IF props.mol_k = 0
       THEN [Thrown("invalid_argument", [wi1 EXCEPT ![fc_w] = 0],
                    ws1 \cup {fc_w})
               EXCEPT !.weights =
                 <<WeightSpec("fc_w", Dim(1, 1, QueryWidth, props.unit))>>]
     ELSE FinalizeRequests(props, b, wi1, ws1)

\* MoLAttentionLayer::finalize on a context with n inputs of batch b
FinalizeResult(n, props, b, wi) ==
  LET wi1 == [wi EXCEPT ![query] = query, ![value] = value, ![state] = state]
      ws1 == {query, value, state}
  IN IF n # 3 THEN Thrown("runtime_error", wi, {})
     ELSE IF props.unit = 0 THEN Thrown("invalid_argument", wi1, ws1)
     ELSE IF props.mol_k = 0 THEN Thrown("invalid_argument", wi1, ws1)
     ELSE FinalizeRequests(props, b, wi1, ws1)

Finalize ==
  /\ phase = "created"
  /\ LET r == FinalizeResult(num_inputs, mol_props, in_batch, wt_idx)
     IN /\ err' = r.err
        /\ phase' = IF r.err = "none" THEN "ready" ELSE "failed"
        /\ wt_idx' = r.wt_idx
        /\ wt_set' = r.wt_set
        /\ weights' = r.weights
        /\ tensors' = r.tensors
        /\ output_dim' = r.output_dim
  /\ last_op' = "finalize"
  /\ UNCHANGED <<num_inputs, in_batch, mol_props, helper_exec, batch,
                 gradVars, step, pattern, helper_runs, helper_saw, resized>>

\* ------------------------------------------------------- run-time tensors
\* context.getTensor(wt_idx[slot])
GetTensor(ts, slot) == ts[wt_idx[slot] + 1]

\* every element of t holds quantity k of step g
Holds(t, k, g) ==
  /\ DataLen(t.dim) > 0
  /\ \A i \in DOMAIN t.data : t.data[i] = Tag(k, g)

\* every element of the local tensor (sequence) d holds quantity k of step g
AllAre(d, k, g) == \A i \in DOMAIN d : d[i] = Tag(k, g)

\* `x = expr;' on a Tensor reference: the tensor object takes the dimension
\* and the contents of the right-hand side
AssignTensor(ts, slot, d, t) ==
  [ts EXCEPT ![wt_idx[slot] + 1] = [name |-> @.name, dim |-> d,
                                    data |-> Fill(d, t)]]

\* an operation with an output argument fills the tensor it is given
WriteOut(ts, slot, t) ==
  [ts EXCEPT ![wt_idx[slot] + 1] = [name |-> @.name, dim |-> @.dim,
                                    data |-> Fill(@.dim, t)]]

\* Tensor::dot_batched_deriv_wrt_1(m, output_deriv): the receiver gets the
\* gradient with respect to the left operand; m and output_deriv are read
DotBatchedDerivWrt1(ts, recv, t) == WriteOut(ts, recv, t)

\* offset of segment i (0 shift, 1 scale, 2 weight) of the packed buffer
SegOffset_Unscaled(i, mol_k) == i

SegOffset(i, mol_k) == i * mol_k

\* getSharedDataTensor({batch, 1, 1, mol_k}, off, false): the view keeps the
\* strides of its parent, so element (b, k) is at off + b * stride + k
ViewAddr(off, stride, b, k) == off + b * stride + k

BatchStride(d) == d.channel * d.height * d.width

ViewAddrs(d, off, B, K) ==
  {ViewAddr(off, BatchStride(d), b, k) : b \in 0..(B - 1), k \in 0..(K - 1)}

ReadAt(data, a) == IF (a + 1) \in DOMAIN data THEN data[a + 1] ELSE Tag("oob", 0)

\* copy_with_stride out of a view: a (B, 1, 1, K) copy, row-major
ViewRead(t, off, B, K) ==
  [j \in 1..(B * K) |->
     ReadAt(t.data, ViewAddr(off, BatchStride(t.dim), (j - 1) \div K, (j - 1) % K))]

\* copy_with_stride into a view
ViewWrite(t, off, B, K, src) ==
  [t EXCEPT !.data =
     [i \in DOMAIN @ |->
        IF \E b \in 0..(B - 1), k \in 0..(K - 1) :
             ViewAddr(off, BatchStride(t.dim), b, k) = i - 1
        THEN LET bk == CHOOSE p \in (0..(B - 1)) \X (0..(K - 1)) :
                         ViewAddr(off, BatchStride(t.dim), p[1], p[2]) = i - 1
             IN src[bk[1] * K + bk[2] + 1]
        ELSE @[i]]]

\* the layout [shift | scale | weight] of a (B, 1, 1, 3K) buffer
FwdKinds == <<"kappa", "beta", "alpha">>

GradKinds == <<"dkappa_src", "dbeta_src", "dalpha_src">>

PackedHolds(t, kinds, g, K) ==
  /\ t.dim.width = 3 * K
  /\ DataLen(t.dim) > 0
  /\ \A i \in DOMAIN t.data :
       t.data[i] = Tag(kinds[(((i - 1) % (3 * K)) \div K) + 1], g)

\* ------------------------------------------------------------- forwarding
\* apply_i(&expf): elementwise
Exp(src, k, g) == [j \in DOMAIN src |-> Derive(k, g, src[j] = Tag("proj", g))]

\* softmax.run_fn: over the K axis, per batch row
Softmax(src, K, g) ==
  [j \in DOMAIN src |->
     Derive("alpha", g,
            \A j2 \in DOMAIN src :
               ((j2 - 1) \div K = (j - 1) \div K) => src[j2] = Tag("proj", g))]

\* what forwarding copies into the weight segment (lines 187-188)
WrittenBackWeight_Logits(alpha_src, alpha) == alpha_src

WrittenBackWeight(alpha_src, alpha) == alpha

\* the value forwarding gives helper_exec (line 158)
ResetHelperState_Keep == helper_exec

ResetHelperState == FALSE

\* forwarding of step g with batch B on the scratch tensors ts
ForwardResult(ts, g, B) ==
  LET mol_k == mol_props.mol_k
      \* 160-161  fc_out = query.dot(fc_w); fc_out.add_i(fc_bias)
      a1 == AssignTensor(ts, fc_out,
                         Dim(B, 1, 1, weights[wt_idx[fc_w] + 1].dim.width),
                         Tag("fc_out", g))
      \* 163  tanh.run_fn(fc_out, fc_tanh)
      a2 == WriteOut(a1, fc_tanh,
                     Derive("fc_tanh", g, Holds(GetTensor(a1, fc_out), "fc_out", g)))
      \* 165  fc_proj_out = fc_tanh.dot(fc_proj_w)
      a3 == AssignTensor(a2, fc_proj_out,
                         Dim(B, 1, 1, weights[wt_idx[fc_proj_w] + 1].dim.width),
                         Derive("proj", g, Holds(GetTensor(a2, fc_tanh), "fc_tanh", g)))
      p0 == GetTensor(a3, fc_proj_out)
      \* 167-173
      kappa_src == ViewRead(p0, SegOffset(0, mol_k), B, mol_k)
      beta_src == ViewRead(p0, SegOffset(1, mol_k), B, mol_k)
      alpha_src == ViewRead(p0, SegOffset(2, mol_k), B, mol_k)
      \* 175-181
      kappa == Exp(kappa_src, "kappa", g)
      beta == Exp(beta_src, "beta", g)
      alpha == Softmax(alpha_src, mol_k, g)
      \* 183-188
      p1 == ViewWrite(p0, SegOffset(0, mol_k), B, mol_k, kappa)
      p2 == ViewWrite(p1, SegOffset(1, mol_k), B, mol_k, beta)
      p3 == ViewWrite(p2, SegOffset(2, mol_k), B, mol_k,
                      WrittenBackWeight(alpha_src, alpha))
      a4 == [a3 EXCEPT ![wt_idx[fc_proj_out] + 1] = p3]
      kOK == AllAre(kappa, "kappa", g)
      bOK == AllAre(beta, "beta", g)
      aOK == AllAre(alpha, "alpha", g)
      \* 190-208  m = state + kappa; (u_pos - m) / (beta + eps)
      a5 == WriteOut(a4, u_pos_div, Derive("u_pos_div", g, kOK /\ bOK))
      \* 209
      a6 == WriteOut(a5, prob_left,
                     Derive("prob_left", g, Holds(GetTensor(a5, u_pos_div), "u_pos_div", g)))
      \* 211-212
      a7 == WriteOut(a6, u_neg_div, Derive("u_neg_div", g, kOK /\ bOK))
      \* 213
      a8 == WriteOut(a7, prob_right,
                     Derive("prob_right", g, Holds(GetTensor(a7, u_neg_div), "u_neg_div", g)))
      \* 215
      a9 == WriteOut(a8, prob,
                     Derive("prob", g, /\ Holds(GetTensor(a8, prob_left), "prob_left", g)
                                       /\ Holds(GetTensor(a8, prob_right), "prob_right", g)))
      \* 217-218
      a10 == WriteOut(a9, scores,
                      Derive("scores", g, Holds(GetTensor(a9, prob), "prob", g) /\ aOK))
  IN [tensors |-> a10,
      \* 220
      output |-> Derive("output", g, Holds(GetTensor(a10, scores), "scores", g))]

Forwarding ==
  /\ phase = "ready"
  /\ step < MaxSteps
  /\ LET r == ForwardResult(tensors, step + 1, batch)
     IN /\ tensors' = r.tensors
        /\ output' = r.output
  /\ helper_exec' = ResetHelperState
  /\ step' = step + 1
  /\ pattern' = <<>>
  /\ helper_runs' = 0
  /\ resized' = FALSE
  /\ last_op' = "forwarding"
  /\ UNCHANGED <<cfgVars, batch, dquery, dvalue, dstate, dfc_w, dfc_bias,
                 dfc_proj_w, helper_saw>>

\* --------------------------------------------------- calcDerivativeHelper
\* what the three views hold when the helper reads them (lines 244-250)
SawKind(kappa, beta, alpha, g) ==
  IF AllAre(kappa, "kappa", g) /\ AllAre(beta, "beta", g) /\ AllAre(alpha, "alpha", g)
  THEN "forward"
  ELSE IF \A d \in {kappa, beta, alpha} : \A i \in DOMAIN d :
            d[i].kind \in {"dkappa_src", "dbeta_src", "dalpha_src"}
  THEN "gradient"
  ELSE "other"

\* the value the helper gives helper_exec (line 298)
HelperState_Unchanged == helper_exec

HelperState == TRUE

\* calcDerivativeHelper(context, dstate) in step g with batch B
HelperResult(ts, g, B) ==
  LET mol_k == mol_props.mol_k
      \* 230-232: fc_proj_out and dfc_proj_out are the same tensor
      p0 == GetTensor(ts, fc_proj_out)
      \* 244-250
      kappa == ViewRead(p0, SegOffset(0, mol_k), B, mol_k)
      beta == ViewRead(p0, SegOffset(1, mol_k), B, mol_k)
      alpha == ViewRead(p0, SegOffset(2, mol_k), B, mol_k)
      bOK == AllAre(beta, "beta", g)
      aOK == AllAre(alpha, "alpha", g)
      probOK == Holds(GetTensor(ts, prob), "prob", g)
      plOK == Holds(GetTensor(ts, prob_left), "prob_left", g)
      prOK == Holds(GetTensor(ts, prob_right), "prob_right", g)
      unOK == Holds(GetTensor(ts, u_neg_div), "u_neg_div", g)
      upOK == Holds(GetTensor(ts, u_pos_div), "u_pos_div", g)
      \* 252-258: dscores from value and the incoming derivative
      \* 260  dalpha = (dprob_scaled * prob).sum(2)
      dalphaOK == probOK
      \* 261  dprob = dprob_scaled * alpha
      dprobOK == aOK
      \* 268-271
      du_neg_mOK == prOK /\ dprobOK /\ bOK
      dbeta_negOK == du_neg_mOK /\ unOK
      \* 273-276
      du_pos_mOK == plOK /\ dprobOK /\ bOK
      dbeta_posOK == du_pos_mOK /\ upOK
      \* 278-281
      dstateOK == du_neg_mOK /\ du_pos_mOK
      dbetaOK == dbeta_negOK /\ dbeta_posOK
      \* 283-284  softmax.run_prime_fn(alpha, dalpha_src, dalpha)
      dalpha_src == [j \in DOMAIN alpha |-> Derive("dalpha_src", g, aOK /\ dalphaOK)]
      \* 286-287
      dkappa_src == [j \in DOMAIN kappa |->
                       Derive("dkappa_src", g, dstateOK /\ kappa[j] = Tag("kappa", g))]
      dbeta_src == [j \in DOMAIN beta |->
                      Derive("dbeta_src", g, dbetaOK /\ beta[j] = Tag("beta", g))]
      \* 289-295
      p1 == ViewWrite(p0, SegOffset(0, mol_k), B, mol_k, dkappa_src)
      p2 == ViewWrite(p1, SegOffset(1, mol_k), B, mol_k, dbeta_src)
      p3 == ViewWrite(p2, SegOffset(2, mol_k), B, mol_k, dalpha_src)
  IN [tensors |-> [ts EXCEPT ![wt_idx[fc_proj_out] + 1] = p3],
      dstate |-> Derive("dstate", g, dstateOK),
      helper_exec |-> HelperState,
      saw |-> Tag(SawKind(kappa, beta, alpha, g), g)]

\* `if (!helper_exec)' of both entry points (lines 321, 347)
NeedHelper_Always == TRUE

NeedHelper == ~helper_exec

\* the helper call of an entry point, or nothing when the cache is Computed
MaybeHelper(ts) ==
  IF NeedHelper
  THEN HelperResult(ts, step, batch)
  ELSE [tensors |-> ts, dstate |-> dstate, helper_exec |-> helper_exec,
        saw |-> helper_saw]

HelperCount == IF NeedHelper THEN helper_runs + 1 ELSE helper_runs

\* ---------------------------------------------------------- calcDerivative
\* The network calls a backward entry point only after a forwarding of the
\* same iteration (step > 0); MaxCalls bounds the calls per step.
CalcDerivative ==
  /\ phase = "ready"
  /\ step > 0
  /\ Len(pattern) < MaxCalls
  /\ LET g == step
         \* 319  scores.dot_batched_deriv_wrt_1(dvalue, derivative)
         t1 == DotBatchedDerivWrt1(tensors, scores, Tag("derivative_dot_dvalue", g))
         \* 321-322
         h == MaybeHelper(t1)
         \* 324-325  dfc_tanh.dot_deriv_wrt_1(fc_proj_w, dfc_proj_out)
         dfc_tanhOK == PackedHolds(GetTensor(h.tensors, fc_proj_out), GradKinds, g,
                                   mol_props.mol_k)
         \* 327-328  tanh.run_prime_fn(fc_tanh, dfc_out, dfc_tanh)
         dfc_outOK == dfc_tanhOK /\ Holds(GetTensor(h.tensors, fc_tanh), "fc_tanh", g)
     IN /\ tensors' = h.tensors
        /\ dstate' = h.dstate
        /\ helper_exec' = h.helper_exec
        /\ helper_saw' = h.saw
        \* 329  dquery.dot_deriv_wrt_1(fc_w, dfc_out)
        /\ dquery' = Derive("dquery", g, dfc_outOK)
  /\ helper_runs' = HelperCount
  /\ pattern' = Append(pattern, "calcDerivative")
  /\ last_op' = "calcDerivative"
  /\ UNCHANGED <<cfgVars, batch, output, dvalue, dfc_w, dfc_bias, dfc_proj_w,
                 step, resized>>

\* ------------------------------------------------------------ calcGradient
CalcGradient ==
  /\ phase = "ready"
  /\ step > 0
  /\ Len(pattern) < MaxCalls
  /\ LET g == step
         \* 347-348
         h == MaybeHelper(tensors)
         gradOK == PackedHolds(GetTensor(h.tensors, fc_proj_out), GradKinds, g,
                               mol_props.mol_k)
         tanhOK == Holds(GetTensor(h.tensors, fc_tanh), "fc_tanh", g)
     IN /\ tensors' = h.tensors
        /\ dstate' = h.dstate
        /\ helper_exec' = h.helper_exec
        /\ helper_saw' = h.saw
        \* 351  fc_tanh.dot_deriv_wrt_2(dfc_proj_w, dfc_proj_out)
        /\ dfc_proj_w' = Derive("dfc_proj_w", g, tanhOK /\ gradOK)
        \* 352-356
        /\ dfc_w' = Derive("dfc_w", g, tanhOK /\ gradOK)
        \* 357
        /\ dfc_bias' = Derive("dfc_bias", g, tanhOK /\ gradOK)
  /\ helper_runs' = HelperCount
  /\ pattern' = Append(pattern, "calcGradient")
  /\ last_op' = "calcGradient"
  /\ UNCHANGED <<cfgVars, batch, output, dquery, dvalue, step, resized>>

\* ---------------------------------------------------------------- setBatch
\* RunLayerContext::updateTensor(idx, batch): the tensor gets the new batch
\* dimension; its contents are not preserved
UpdateTensor(ts, idx, b) ==
  IF ts[idx + 1].dim.batch = b
  THEN ts
  ELSE [ts EXCEPT ![idx + 1] =
          [name |-> @.name,
           dim  |-> [@.dim EXCEPT !.batch = b],
           data |-> Fill([@.dim EXCEPT !.batch = b], Tag("resized", 0))]]

SetBatchResult(ts, b) ==
  LET u1 == UpdateTensor(ts, wt_idx[fc_out], b)
      u2 == UpdateTensor(u1, wt_idx[fc_proj_out], b)
      u3 == UpdateTensor(u2, wt_idx[scores], b)
      u4 == UpdateTensor(u3, wt_idx[prob], b)
      u5 == UpdateTensor(u4, wt_idx[prob_left], b)
      u6 == UpdateTensor(u5, wt_idx[prob_right], b)
      u7 == UpdateTensor(u6, wt_idx[u_neg_div], b)
  IN UpdateTensor(u7, wt_idx[u_pos_div], b)

\* batch is also the batch of the inputs the network hands to the next calls
SetBatch ==
  /\ phase = "ready"
  /\ \E b \in 1..MaxBatch :
       /\ tensors' = SetBatchResult(tensors, b)
       /\ batch' = b
       /\ resized' = (resized \/ b # batch)
  /\ last_op' = "setBatch"
  /\ UNCHANGED <<cfgVars, helper_exec, gradVars, step, pattern, helper_runs,
                 helper_saw>>

\* ----------------------------------------------------------- specification
Next ==
  \/ SetProperty
  \/ Finalize
  \/ Forwarding
  \/ CalcDerivative
  \/ CalcGradient
  \/ SetBatch

Spec == Init /\ [][Next]_vars

\* =================================================================== claims
Ready == phase = "ready"

Packed == GetTensor(tensors, fc_proj_out)

K == mol_props.mol_k

Seg(i) == ViewAddrs(Packed.dim, SegOffset(i, K), batch, K)

\* the tensor finalize requested under name n
Requested(n) == CHOOSE t \in {tensors[i] : i \in DOMAIN tensors} : t.name = n

\* score(t) = sum_k prob(t,k) * weight(k) on the cached tensors: the cached
\* scores are the ones computed from the cached prob and the weight segment
ScoreConsistent ==
  /\ Holds(GetTensor(tensors, scores), "scores", step)
  /\ Holds(GetTensor(tensors, prob), "prob", step)
  /\ \A a \in Seg(2) : ReadAt(Packed.data, a) = Tag("alpha", step)

\* C1: between two forwarding calls the shared helper runs exactly once if an
\* entry point is called (on the first such call, never on a later one), and
\* every forwarding leaves the cache Pending.
C1_HelperOncePerStep ==
  (Ready /\ step > 0) =>
    /\ helper_runs = (IF Len(pattern) > 0 THEN 1 ELSE 0)
    /\ helper_exec = (Len(pattern) > 0)
    /\ (last_op = "forwarding" => ~helper_exec)

C1_Witness ==
  /\ Ready /\ step = 2 /\ helper_runs = 1
  /\ Len(pattern) = 2
  /\ \E i, j \in DOMAIN pattern :
       pattern[i] = "calcDerivative" /\ pattern[j] = "calcGradient"

\* C2 (as claimed): after any setBatch call the cache state is Pending.
C2_SetBatchInvalidates == (last_op = "setBatch") => ~helper_exec

\* C3: within one step without a batch change, d_location_state and the
\* packed gradient buffer hold the same contents (the gradients of this
\* step's forward values) whatever entry points were called in what order.
C3_SameResultAllPatterns ==
  (Ready /\ step > 0 /\ Len(pattern) > 0 /\ ~resized) =>
    /\ dstate = Tag("dstate", step)
    /\ PackedHolds(Packed, GradKinds, step, K)

C3_Witness ==
  /\ Ready /\ ~resized /\ step = 2
  /\ pattern = <<"calcGradient", "calcDerivative">>
  /\ dstate = Tag("dstate", 2)
  /\ PackedHolds(Packed, GradKinds, 2, K)

\* C4: the three K-wide views at offsets 0, K, 2K of the packed buffer are
\* pairwise disjoint and cover the (B,1,1,3K) buffer, so the writes of the
\* helper (and of forwarding) change only their own segment and together
\* write every element exactly once.
C4_SegmentsPartitionPacked ==
  (Ready /\ step > 0) =>
    /\ Packed.dim = Dim(batch, 1, 1, 3 * K)
    /\ Seg(0) \cap Seg(1) = {}
    /\ Seg(0) \cap Seg(2) = {}
    /\ Seg(1) \cap Seg(2) = {}
    /\ Seg(0) \cup Seg(1) \cup Seg(2) = 0..(DataLen(Packed.dim) - 1)
    /\ (helper_exec /\ ~resized) =>
         \A i \in 0..2 : \A a \in Seg(i) :
            ReadAt(Packed.data, a) = Tag(GradKinds[i + 1], step)
    /\ (~helper_exec /\ ~resized) =>
         \A i \in 0..2 : \A a \in Seg(i) :
            ReadAt(Packed.data, a) = Tag(FwdKinds[i + 1], step)

C4_Witness ==
  /\ Ready /\ helper_exec /\ ~resized
  /\ batch = 2 /\ K = 2
  /\ Cardinality(Seg(0) \cup Seg(1) \cup Seg(2)) = 12
  /\ \A a \in Seg(1) : ReadAt(Packed.data, a) = Tag("dbeta_src", step)

\* C5 (as claimed): the scratch tensor finalize requests for fc_proj_out has
\* width 3 * K and the one for fc_out has width U.
C5_RequestedWidths ==
  (Ready /\ last_op = "finalize") =>
    /\ Requested("fc_proj_out").dim.width = 3 * K
    /\ Requested("fc_out").dim.width = mol_props.unit

\* C6 (as claimed): after forwarding and calcDerivative, each of d_query,
\* d_value and d_location_state has been written in this step with the
\* gradient of its own input.
C6_AllInputGradientsWritten ==
  (Ready /\ last_op = "calcDerivative" /\ ~resized) =>
    /\ dquery = Tag("dquery", step)
    /\ dvalue = Tag("dvalue", step)
    /\ dstate = Tag("dstate", step)

\* C7: finalize fails exactly when the number of inputs is not 3 or U or K is
\* not set, and a failed finalize has requested no weight, no scratch tensor
\* and set no output dimension.
C7_SetupFailsCleanly ==
  (phase # "created") =>
    /\ (phase = "failed") <=>
         (num_inputs # 3 \/ mol_props.unit = 0 \/ mol_props.mol_k = 0)
    /\ (phase = "failed") =>
         (err # "none" /\ weights = <<>> /\ tensors = <<>> /\ output_dim = <<>>)
    /\ (phase = "ready") =>
         (err = "none" /\ Len(weights) = 3 /\ output_dim # <<>>)

C7_Witness ==
  /\ phase = "failed" /\ err = "invalid_argument"
  /\ num_inputs = 3 /\ mol_props.unit > 0 /\ mol_props.mol_k = 0
  /\ weights = <<>> /\ tensors = <<>> /\ output_dim = <<>>

\* C8 (as claimed): after a complete step the cached prob, weight segment and
\* scores still satisfy score(t) = sum_k prob(t,k) * weight(k).
C8_CacheIntactAfterStep ==
  (Ready /\ step > 0 /\ Len(pattern) > 0 /\ ~resized) => ScoreConsistent

\* C8 (amended): from the end of forwarding until the first backward entry
\* point the cached prob, weight segment and scores satisfy the score
\* formula; backward calls leave the cached prob untouched, while the helper
\* overwrites the weight segment with d_weight_logits.
C8_CacheIntactUntilBackward ==
  (Ready /\ step > 0 /\ ~resized) =>
    /\ (Len(pattern) = 0) => ScoreConsistent
    /\ Holds(GetTensor(tensors, prob), "prob", step)
    /\ (Len(pattern) > 0) =>
         \A a \in Seg(2) : ReadAt(Packed.data, a) = Tag("dalpha_src", step)

C8_Witness ==
  /\ Ready /\ step > 0 /\ ~resized
  /\ last_op = "forwarding"
  /\ ScoreConsistent

\* C9: every helper execution reads the forward values of the most recent
\* forwarding, never gradients left by an earlier execution; helper_exec is
\* false exactly when the packed buffer holds forward values and true exactly
\* when it holds gradients (no batch change since the forwarding).
C9_FlagTracksBufferContents ==
  (Ready /\ step > 0 /\ ~resized) =>
    /\ ~helper_exec <=> PackedHolds(Packed, FwdKinds, step, K)
    /\ helper_exec <=> PackedHolds(Packed, GradKinds, step, K)
    /\ (helper_runs > 0) => (helper_saw = Tag("forward", step))

C9_Witness ==
  /\ Ready /\ step = 2 /\ ~resized
  /\ helper_exec /\ helper_runs = 1
  /\ helper_saw = Tag("forward", 2)
  /\ PackedHolds(Packed, GradKinds, 2, K)

\* C10 (as claimed): after a successful finalize every slot of wt_idx that
\* the layer looks up was assigned by finalize, and no two scratch tensors
\* resolve to the same storage.
ScratchSlots ==
  {fc_out, fc_tanh, fc_proj_out, scores, prob, prob_left, prob_right,
   u_neg_div, u_pos_div}

C10_AllSlotsAssigned ==
  Ready =>
    /\ \A s \in Slots : s \in wt_set
    /\ \A s1, s2 \in ScratchSlots : (s1 # s2) => (wt_idx[s1] # wt_idx[s2])

====
